---- MODULE Spec2Model ----
(***************************************************************************)
(* Model of the whitelist (license validation) service: the store's three  *)
(* relations (api_keys, access_tokens, licenses), the gRPC handlers of     *)
(* WhitelistService and the background token sweep.  Every SQL statement   *)
(* is one atomic step of the store; a handler that issues several         *)
(* statements is a sequence of steps, so that concurrent handlers          *)
(* interleave between their statements exactly as they do on the store.    *)
(***************************************************************************)
EXTENDS Integers, Sequences, FiniteSets, TLC

VARIABLES
    now,            \* the store's clock, NOW(), in seconds
    env,            \* process environment: env.ADMIN_SECRET
    api_keys,       \* relation api_keys(key, expires_at)
    access_tokens,  \* relation access_tokens(token, expires_at)
    licenses,       \* relation licenses(license_key, product_id, is_active, hwid)
    tokenSeq,       \* number of tokens generated so far (token identifiers are unique)
    nextTick,       \* time at which the sweep's ticker fires next
    sweepErr,       \* the sweep loop's err: TRUE when its last DELETE failed and was logged
    calls,          \* per caller: the handler in flight, its request, locals and response
    issued,         \* history: every access_tokens row ever inserted
    redeemed        \* history: tokens whose row a ValidateLicense call has deleted

vars == <<now, env, api_keys, access_tokens, licenses, tokenSeq, nextTick, sweepErr,
          calls, issued, redeemed>>

(***************************************************************************)
(* Bounds of the model.                                                    *)
(***************************************************************************)
MaxTokens == 1      \* tokens issued in one behaviour
MaxTicks == 2       \* clock advances in one behaviour
PoolTokens == 2     \* tokens already issued when a behaviour without GetAuthToken starts

(***************************************************************************)
(* Program constants.                                                      *)
(***************************************************************************)
ExpiresInSeconds == 30   \* lifetime of an access token
SweepInterval == 60      \* period of the sweep's ticker
TimeStep == ExpiresInSeconds   \* the modelled clock advances by one token lifetime

Callers == {"c1", "c2", "c3"}
Pair == {"c1", "c2"}

\* sql.NullString / nullable timestamp: Valid = FALSE is SQL NULL
Null(v) == [Valid |-> FALSE, V |-> v]
Some(v) == [Valid |-> TRUE, V |-> v]

\* a gRPC response: status code, and for ValidateResponse the two fields
Resp(code, valid, message) == [code |-> code, valid |-> valid, message |-> message]
NoResp == Resp("none", FALSE, "")

\* the incoming context: metadata present or not, and the header values
Ctx(ok, values) == [ok |-> ok, values |-> values]

IdleCall ==
    [op |-> "none", pc |-> "idle", md |-> Ctx(FALSE, <<>>), api_key |-> "",
     lk |-> "", pid |-> "", hwid |-> "", active |-> FALSE,
     rowsAffected |-> 0, failed |-> FALSE, res |-> NoResp]

Free(c) == calls[c].pc \in {"idle", "done"}

\* the service after construction; `pool` tokens have been issued just now
InitWith(secrets, pool) ==
    /\ now = 0
    /\ env \in {[ADMIN_SECRET |-> s] : s \in secrets}
    /\ api_keys = {[key |-> "k-perm", expires_at |-> Null(0)],
                   [key |-> "k-temp", expires_at |-> Some(ExpiresInSeconds)]}
    /\ access_tokens = {[token |-> t, expires_at |-> now + ExpiresInSeconds] : t \in 1..pool}
    /\ licenses = {}
    /\ tokenSeq = pool
    /\ nextTick = SweepInterval
    /\ sweepErr = FALSE
    /\ calls = [c \in Callers |-> IdleCall]
    /\ issued = access_tokens
    /\ redeemed = {}

Init == InitWith({"s3cret"}, 0)

\* time passes on the store's clock
Tick ==
    /\ now < MaxTicks * TimeStep
    /\ now' = now + TimeStep
    /\ UNCHANGED <<env, api_keys, access_tokens, licenses, tokenSeq, nextTick, sweepErr,
                   calls, issued, redeemed>>

(***************************************************************************)
(* Background sweep: one bulk delete per tick of the ticker; an error of   *)
(* the statement is logged and the loop goes on to the next tick.  The     *)
(* loop never ends: the clock's last instant, Horizon, stands for all      *)
(* later time, and there the ticker goes on firing.                        *)
(***************************************************************************)
Horizon == MaxTicks * TimeStep

\* mutant: the sweep also reaps the tokens that expire before its next tick
Expired_Ahead == {r \in access_tokens : r.expires_at < now + SweepInterval}

\* the rows matched by DELETE FROM access_tokens WHERE expires_at < NOW()
Expired == {r \in access_tokens : r.expires_at < now}

\* mutant: the loop ends at the first error of the store
cleanupExpiredTokens_Tick_Stops(err) ==
    /\ now >= nextTick
    /\ nextTick' = IF err THEN Horizon + SweepInterval
                   ELSE IF nextTick + SweepInterval <= Horizon
                        THEN nextTick + SweepInterval ELSE Horizon
    /\ sweepErr' = err
    /\ access_tokens' = IF err THEN access_tokens ELSE access_tokens \ Expired
    /\ UNCHANGED <<now, env, api_keys, licenses, tokenSeq, calls, issued, redeemed>>

\* one iteration of `for range ticker.C`
cleanupExpiredTokens_Tick(err) ==
    /\ now >= nextTick
    /\ nextTick' = IF nextTick + SweepInterval <= Horizon
                   THEN nextTick + SweepInterval ELSE Horizon
    /\ sweepErr' = err
    /\ access_tokens' = IF err THEN access_tokens ELSE access_tokens \ Expired
    /\ UNCHANGED <<now, env, api_keys, licenses, tokenSeq, calls, issued, redeemed>>

cleanupExpiredTokens == \E err \in BOOLEAN : cleanupExpiredTokens_Tick(err)

(***************************************************************************)
(* checkAdmin: the error it returns, or NoResp for nil.                    *)
(***************************************************************************)
\* mutant: any value of the header may match, not the first one only
checkAdmin_AnyValue(md) ==
    IF ~md.ok THEN Resp("Unauthenticated", FALSE, "metadata missing")
    ELSE IF \A i \in 1..Len(md.values) : md.values[i] # env.ADMIN_SECRET
         THEN Resp("PermissionDenied", FALSE, "invalid admin secret")
         ELSE NoResp

\* mutant: an unset ADMIN_SECRET authorizes nobody
checkAdmin_NeedsSecret(md) ==
    IF ~md.ok THEN Resp("Unauthenticated", FALSE, "metadata missing")
    ELSE IF Len(md.values) = 0 \/ env.ADMIN_SECRET = "" \/ md.values[1] # env.ADMIN_SECRET
         THEN Resp("PermissionDenied", FALSE, "invalid admin secret")
         ELSE NoResp

checkAdmin(md) ==
    IF ~md.ok THEN Resp("Unauthenticated", FALSE, "metadata missing")
    ELSE IF Len(md.values) = 0 \/ md.values[1] # env.ADMIN_SECRET
         THEN Resp("PermissionDenied", FALSE, "invalid admin secret")
         ELSE NoResp

(***************************************************************************)
(* GetAuthToken, first statement: the request arrives, the empty key is    *)
(* rejected, and SELECT EXISTS looks the key up among the unexpired keys.  *)
(***************************************************************************)
\* mutant: the expiry of the key is not looked at
KeyExists_NoExpiry(key) == \E k \in api_keys : k.key = key

KeyExists(key) ==
    \E k \in api_keys :
        /\ k.key = key
        /\ (~k.expires_at.Valid \/ k.expires_at.V > now)

GetAuthToken_Check(c, key, err) ==
    /\ Free(c)
    /\ LET call == [IdleCall EXCEPT !.op = "GetAuthToken", !.api_key = key] IN
       calls' = [calls EXCEPT ![c] =
          IF key = ""
          THEN [call EXCEPT !.pc = "done",
                            !.res = Resp("InvalidArgument", FALSE, "API Key required")]
          ELSE IF err
          THEN [call EXCEPT !.pc = "done", !.failed = TRUE,
                            !.res = Resp("Internal", FALSE, "DB Check Failed")]
          ELSE IF ~KeyExists(key)
          THEN [call EXCEPT !.pc = "done",
                            !.res = Resp("Unauthenticated", FALSE, "Invalid or Expired API Key")]
          ELSE [call EXCEPT !.pc = "insert"]]
    /\ UNCHANGED <<now, env, api_keys, access_tokens, licenses, tokenSeq, nextTick, sweepErr,
                   issued, redeemed>>

(***************************************************************************)
(* GetAuthToken, second statement: INSERT ... DEFAULT VALUES RETURNING     *)
(* token.  The store generates a fresh identifier and the expiry.          *)
(***************************************************************************)
GetAuthToken_Insert(c, err) ==
    /\ calls[c].pc = "insert"
    /\ IF err
       THEN /\ calls' = [calls EXCEPT ![c].pc = "done", ![c].failed = TRUE,
                           ![c].res = Resp("Internal", FALSE, "failed to generate token")]
            /\ UNCHANGED <<access_tokens, tokenSeq, issued>>
       ELSE /\ tokenSeq < MaxTokens
            /\ LET row == [token |-> tokenSeq + 1, expires_at |-> now + ExpiresInSeconds] IN
               /\ access_tokens' = access_tokens \cup {row}
               /\ issued' = issued \cup {row}
            /\ tokenSeq' = tokenSeq + 1
            /\ calls' = [calls EXCEPT ![c].pc = "done",
                           ![c].res = Resp("OK", FALSE, "")]
    /\ UNCHANGED <<now, env, api_keys, licenses, nextTick, sweepErr, redeemed>>

(***************************************************************************)
(* ValidateLicense, token stage: the request arrives, the header is read   *)
(* and the token is burnt by one conditional DELETE.                       *)
(***************************************************************************)
\* mutant: the DELETE has lost its expiry filter
Burnable_AnyAge(tok) == {r \in access_tokens : r.token = tok}

\* mutant: a token is accepted up to and including its expiry instant
Burnable_NotBefore(tok) == {r \in access_tokens : r.token = tok /\ r.expires_at >= now}

Burnable(tok) == {r \in access_tokens : r.token = tok /\ r.expires_at > now}

\* mutant: the row is looked up but not deleted
BurnToken_Keeps(tok) == access_tokens

\* the relation after DELETE FROM access_tokens WHERE token = tok AND expires_at > NOW()
BurnToken(tok) == access_tokens \ Burnable(tok)

\* mutant: the row count of the DELETE is not looked at
RowsAffected_Ignored(tok) == 1

\* res.RowsAffected() of that DELETE
RowsAffected(tok) == Cardinality(Burnable(tok))

ValidateLicense_Burn(c, md, lk, pid, hwid, err) ==
    /\ Free(c)
    /\ LET call == [IdleCall EXCEPT !.op = "ValidateLicense", !.md = md,
                                    !.lk = lk, !.pid = pid, !.hwid = hwid] IN
       IF ~md.ok
       THEN /\ calls' = [calls EXCEPT ![c] = [call EXCEPT !.pc = "done",
                           !.res = Resp("Unauthenticated", FALSE, "no metadata")]]
            /\ UNCHANGED <<access_tokens, redeemed>>
       ELSE IF Len(md.values) = 0
       THEN /\ calls' = [calls EXCEPT ![c] = [call EXCEPT !.pc = "done",
                           !.res = Resp("Unauthenticated", FALSE, "missing x-access-token header")]]
            /\ UNCHANGED <<access_tokens, redeemed>>
       ELSE IF err
       THEN /\ calls' = [calls EXCEPT ![c] = [call EXCEPT !.pc = "done", !.failed = TRUE,
                           !.res = Resp("Internal", FALSE, "db error")]]
            /\ UNCHANGED <<access_tokens, redeemed>>
       ELSE LET rowsAffected == RowsAffected(md.values[1]) IN
            /\ access_tokens' = BurnToken(md.values[1])
            /\ IF rowsAffected = 0
               THEN /\ calls' = [calls EXCEPT ![c] = [call EXCEPT !.pc = "done",
                           !.res = Resp("Unauthenticated", FALSE, "invalid or expired access token")]]
                    /\ UNCHANGED redeemed
               ELSE /\ calls' = [calls EXCEPT ![c] = [call EXCEPT !.pc = "lookup",
                           !.rowsAffected = rowsAffected]]
                    /\ redeemed' = redeemed \cup {md.values[1]}
    /\ UNCHANGED <<now, env, api_keys, licenses, tokenSeq, nextTick, sweepErr, issued>>

(***************************************************************************)
(* ValidateLicense, license stage: SELECT is_active, hwid by (license_key, *)
(* product_id), then the decisions taken on the row that was read.         *)
(***************************************************************************)
\* mutant: the hardware id is compared also when the request carries none
HwidCheck_NotOptional(stored, hwid) ==
    IF ~stored.Valid \/ stored.V = "" THEN (IF hwid = "" THEN "ok" ELSE "lock")
    ELSE IF stored.V # hwid THEN "mismatch"
    ELSE "ok"

\* mutant: a differing hardware id rebinds the license
HwidCheck_Rebinds(stored, hwid) ==
    IF hwid = "" THEN "ok"
    ELSE IF ~stored.Valid \/ stored.V = "" THEN "lock"
    ELSE IF stored.V # hwid THEN "lock"
    ELSE "ok"

\* the branch taken at `if req.Hwid != ""` on the hwid that was read
HwidCheck(stored, hwid) ==
    IF hwid = "" THEN "ok"
    ELSE IF ~stored.Valid \/ stored.V = "" THEN "lock"
    ELSE IF stored.V # hwid THEN "mismatch"
    ELSE "ok"

\* mutant: a failed lookup gives the token back
ValidateLicense_Lookup_Refunds(c, err) ==
    /\ calls[c].pc = "lookup"
    /\ LET call == calls[c]
           rows == {r \in licenses : r.license_key = call.lk /\ r.product_id = call.pid}
       IN calls' = [calls EXCEPT ![c] =
          IF err
          THEN [call EXCEPT !.pc = "done", !.failed = TRUE,
                            !.res = Resp("Internal", FALSE, "db error")]
          ELSE IF rows = {}
          THEN [call EXCEPT !.pc = "done",
                            !.res = Resp("OK", FALSE, "License not found")]
          ELSE LET row == CHOOSE r \in rows : TRUE
                   branch == HwidCheck(row.hwid, call.hwid)
               IN
               IF ~row.is_active
               THEN [call EXCEPT !.pc = "done",
                                 !.res = Resp("OK", FALSE, "License is suspended")]
               ELSE IF branch = "lock"
               THEN [call EXCEPT !.pc = "lock", !.active = TRUE]
               ELSE IF branch = "mismatch"
               THEN [call EXCEPT !.pc = "done", !.active = TRUE,
                                 !.res = Resp("OK", FALSE, "HWID mismatch")]
               ELSE [call EXCEPT !.pc = "done", !.active = TRUE,
                                 !.res = Resp("OK", TRUE, "Authenticated")]]
    /\ access_tokens' = IF err THEN access_tokens
                                    \cup {h \in issued : h.token = calls[c].md.values[1]}
                        ELSE access_tokens
    /\ UNCHANGED <<now, env, api_keys, licenses, tokenSeq, nextTick, sweepErr,
                   issued, redeemed>>

\* mutant: the hwid is looked at before is_active
ValidateLicense_Lookup_HwidFirst(c, err) ==
    /\ calls[c].pc = "lookup"
    /\ LET call == calls[c]
           rows == {r \in licenses : r.license_key = call.lk /\ r.product_id = call.pid}
       IN calls' = [calls EXCEPT ![c] =
          IF err
          THEN [call EXCEPT !.pc = "done", !.failed = TRUE,
                            !.res = Resp("Internal", FALSE, "db error")]
          ELSE IF rows = {}
          THEN [call EXCEPT !.pc = "done",
                            !.res = Resp("OK", FALSE, "License not found")]
          ELSE LET row == CHOOSE r \in rows : TRUE
                   branch == HwidCheck(row.hwid, call.hwid)
               IN
               IF branch = "lock"
               THEN [call EXCEPT !.pc = "lock", !.active = row.is_active]
               ELSE IF branch = "mismatch"
               THEN [call EXCEPT !.pc = "done", !.active = row.is_active,
                                 !.res = Resp("OK", FALSE, "HWID mismatch")]
               ELSE IF ~row.is_active
               THEN [call EXCEPT !.pc = "done",
                                 !.res = Resp("OK", FALSE, "License is suspended")]
               ELSE [call EXCEPT !.pc = "done", !.active = TRUE,
                                 !.res = Resp("OK", TRUE, "Authenticated")]]
    /\ UNCHANGED <<now, env, api_keys, access_tokens, licenses, tokenSeq, nextTick, sweepErr,
                   issued, redeemed>>

ValidateLicense_Lookup(c, err) ==
    /\ calls[c].pc = "lookup"
    /\ LET call == calls[c]
           rows == {r \in licenses : r.license_key = call.lk /\ r.product_id = call.pid}
       IN calls' = [calls EXCEPT ![c] =
          IF err
          THEN [call EXCEPT !.pc = "done", !.failed = TRUE,
                            !.res = Resp("Internal", FALSE, "db error")]
          ELSE IF rows = {}
          THEN [call EXCEPT !.pc = "done",
                            !.res = Resp("OK", FALSE, "License not found")]
          ELSE LET row == CHOOSE r \in rows : TRUE
                   branch == HwidCheck(row.hwid, call.hwid)
               IN
               IF ~row.is_active
               THEN [call EXCEPT !.pc = "done",
                                 !.res = Resp("OK", FALSE, "License is suspended")]
               ELSE IF branch = "lock"
               THEN [call EXCEPT !.pc = "lock", !.active = TRUE]
               ELSE IF branch = "mismatch"
               THEN [call EXCEPT !.pc = "done", !.active = TRUE,
                                 !.res = Resp("OK", FALSE, "HWID mismatch")]
               ELSE [call EXCEPT !.pc = "done", !.active = TRUE,
                                 !.res = Resp("OK", TRUE, "Authenticated")]]
    /\ UNCHANGED <<now, env, api_keys, access_tokens, licenses, tokenSeq, nextTick, sweepErr,
                   issued, redeemed>>

(***************************************************************************)
(* ValidateLicense, hwid lock: UPDATE licenses SET hwid WHERE license_key; *)
(* the statement's error is dropped and the call answers valid.            *)
(***************************************************************************)
\* mutant: the UPDATE has lost its WHERE clause
ValidateLicense_Lock_AllRows(c, err) ==
    /\ calls[c].pc = "lock"
    /\ licenses' = IF err THEN licenses
                   ELSE {[r EXCEPT !.hwid = Some(calls[c].hwid)] : r \in licenses}
    /\ calls' = [calls EXCEPT ![c].pc = "done", ![c].failed = err,
                    ![c].res = Resp("OK", TRUE, "Authenticated")]
    /\ UNCHANGED <<now, env, api_keys, access_tokens, tokenSeq, nextTick, sweepErr,
                   issued, redeemed>>

ValidateLicense_Lock(c, err) ==
    /\ calls[c].pc = "lock"
    /\ licenses' = IF err THEN licenses
                   ELSE {IF r.license_key = calls[c].lk
                         THEN [r EXCEPT !.hwid = Some(calls[c].hwid)]
                         ELSE r : r \in licenses}
    /\ calls' = [calls EXCEPT ![c].pc = "done", ![c].failed = err,
                    ![c].res = Resp("OK", TRUE, "Authenticated")]
    /\ UNCHANGED <<now, env, api_keys, access_tokens, tokenSeq, nextTick, sweepErr,
                   issued, redeemed>>

(***************************************************************************)
(* UpdateLicense (admin): checkAdmin, then one INSERT ... ON CONFLICT      *)
(* (license_key) DO UPDATE SET product_id, is_active.                      *)
(***************************************************************************)
\* mutant: the conflict branch rewrites the whole row, hwid included
Upsert_ClearsHwid(rel, lk, pid, active) ==
    {r \in rel : r.license_key # lk}
        \cup {[license_key |-> lk, product_id |-> pid, is_active |-> active,
                hwid |-> Null("")]}

Upsert(rel, lk, pid, active) ==
    IF \E r \in rel : r.license_key = lk
    THEN {IF r.license_key = lk
          THEN [r EXCEPT !.product_id = pid, !.is_active = active]
          ELSE r : r \in rel}
    ELSE rel \cup {[license_key |-> lk, product_id |-> pid, is_active |-> active,
                    hwid |-> Null("")]}

UpdateLicense(c, md, lk, pid, active, err) ==
    /\ Free(c)
    /\ LET call == [IdleCall EXCEPT !.op = "UpdateLicense", !.pc = "done", !.md = md,
                                    !.lk = lk]
           denied == checkAdmin(md)
       IN IF denied # NoResp
          THEN /\ calls' = [calls EXCEPT ![c] = [call EXCEPT !.res = denied]]
               /\ UNCHANGED licenses
          ELSE IF err
          THEN /\ calls' = [calls EXCEPT ![c] = [call EXCEPT !.failed = TRUE,
                              !.res = Resp("Internal", FALSE, "upsert failed")]]
               /\ UNCHANGED licenses
          ELSE /\ calls' = [calls EXCEPT ![c] = [call EXCEPT !.res = Resp("OK", FALSE, "")]]
               /\ licenses' = Upsert(licenses, lk, pid, active)
    /\ UNCHANGED <<now, env, api_keys, access_tokens, tokenSeq, nextTick, sweepErr,
                   issued, redeemed>>

(***************************************************************************)
(* DeleteLicense (admin): checkAdmin, then DELETE by license_key.          *)
(***************************************************************************)
\* mutant: the DELETE has lost its WHERE clause
DeleteRow_All(rel, lk) == {}

\* the relation after DELETE FROM licenses WHERE license_key = lk
DeleteRow(rel, lk) == {r \in rel : r.license_key # lk}

DeleteLicense(c, md, lk, err) ==
    /\ Free(c)
    /\ LET call == [IdleCall EXCEPT !.op = "DeleteLicense", !.pc = "done", !.md = md,
                                    !.lk = lk]
           denied == checkAdmin(md)
       IN IF denied # NoResp
          THEN /\ calls' = [calls EXCEPT ![c] = [call EXCEPT !.res = denied]]
               /\ UNCHANGED licenses
          ELSE IF err
          THEN /\ calls' = [calls EXCEPT ![c] = [call EXCEPT !.failed = TRUE,
                              !.res = Resp("Internal", FALSE, "delete failed")]]
               /\ UNCHANGED licenses
          ELSE /\ calls' = [calls EXCEPT ![c] = [call EXCEPT !.res = Resp("OK", FALSE, "")]]
               /\ licenses' = DeleteRow(licenses, lk)
    /\ UNCHANGED <<now, env, api_keys, access_tokens, tokenSeq, nextTick, sweepErr,
                   issued, redeemed>>

(***************************************************************************)
(* The token protocol: every handler and the sweep, on a clock that        *)
(* passes the tokens' and the keys' expiry; one license, one hardware id.  *)
(***************************************************************************)
ApiKeyInputs == {"", "k-perm", "k-temp", "k-unknown"}
TokenCtxs == {Ctx(FALSE, <<>>), Ctx(TRUE, <<>>)} \cup {Ctx(TRUE, <<t>>) : t \in 1..MaxTokens}
Admin == Ctx(TRUE, <<"s3cret">>)

Next ==
    \/ Tick
    \/ cleanupExpiredTokens
    \/ \E c \in Pair, key \in ApiKeyInputs, err \in BOOLEAN : GetAuthToken_Check(c, key, err)
    \/ \E c \in Pair, err \in BOOLEAN : GetAuthToken_Insert(c, err)
    \/ \E c \in Pair, md \in TokenCtxs, err \in BOOLEAN :
          ValidateLicense_Burn(c, md, "LIC-1", "PROD-A", "A", err)
    \/ \E c \in Pair, err \in BOOLEAN : ValidateLicense_Lookup(c, err)
    \/ \E c \in Pair, err \in BOOLEAN : ValidateLicense_Lock(c, err)
    \/ \E c \in Pair : UpdateLicense(c, Admin, "LIC-1", "PROD-A", TRUE, FALSE)
    \/ \E c \in Pair : DeleteLicense(c, Admin, "LIC-1", FALSE)

Spec == Init /\ [][Next]_vars

(***************************************************************************)
(* License validation under concurrency: two callers validate one license  *)
(* with issued tokens while an administrator upserts and deletes it; the   *)
(* statements on licenses may fail.                                        *)
(***************************************************************************)
PoolCtxs == {Ctx(TRUE, <<t>>) : t \in 1..PoolTokens}
ProductIds == {"PROD-A", "PROD-B"}
HwidInputs == {"", "A", "B"}

InitLicense == InitWith({"s3cret"}, PoolTokens)

NextLicense ==
    \/ \E c \in Pair, md \in PoolCtxs, pid \in ProductIds, hwid \in HwidInputs :
          ValidateLicense_Burn(c, md, "LIC-1", pid, hwid, FALSE)
    \/ \E c \in Pair, err \in BOOLEAN : ValidateLicense_Lookup(c, err)
    \/ \E c \in Pair, err \in BOOLEAN : ValidateLicense_Lock(c, err)
    \/ \E c \in Pair, pid \in ProductIds, active \in BOOLEAN :
          UpdateLicense(c, Admin, "LIC-1", pid, active, FALSE)
    \/ \E c \in Pair : DeleteLicense(c, Admin, "LIC-1", FALSE)

SpecLicense == InitLicense /\ [][NextLicense]_vars

(***************************************************************************)
(* The race for one token: three callers present the token that has been   *)
(* issued, while the clock runs past its expiry and the sweep ticks.       *)
(***************************************************************************)
InitRace == InitWith({"s3cret"}, 1)

NextRace ==
    \/ Tick
    \/ cleanupExpiredTokens
    \/ \E c \in Callers, err \in BOOLEAN :
          ValidateLicense_Burn(c, Ctx(TRUE, <<1>>), "LIC-1", "PROD-A", "A", err)
    \/ \E c \in Callers : ValidateLicense_Lookup(c, FALSE)
    \/ \E c \in Callers : ValidateLicense_Lock(c, FALSE)
    \/ \E c \in Callers : UpdateLicense(c, Admin, "LIC-1", "PROD-A", TRUE, FALSE)

SpecRace == InitRace /\ [][NextRace]_vars

(***************************************************************************)
(* One client whose calls follow one another: no two handlers overlap.     *)
(***************************************************************************)
Sequential == {"c1"}

InitSeq == InitWith({"s3cret"}, PoolTokens)

NextSeq ==
    \/ \E c \in Sequential, md \in PoolCtxs, pid \in ProductIds, hwid \in HwidInputs :
          ValidateLicense_Burn(c, md, "LIC-1", pid, hwid, FALSE)
    \/ \E c \in Sequential, err \in BOOLEAN : ValidateLicense_Lookup(c, err)
    \/ \E c \in Sequential, err \in BOOLEAN : ValidateLicense_Lock(c, err)
    \/ \E c \in Sequential, pid \in ProductIds, active \in BOOLEAN :
          UpdateLicense(c, Admin, "LIC-1", pid, active, FALSE)
    \/ \E c \in Sequential : DeleteLicense(c, Admin, "LIC-1", FALSE)

SpecSeq == InitSeq /\ [][NextSeq]_vars

(***************************************************************************)
(* The admin operations with every shape of the x-admin-secret header,     *)
(* with and without a configured secret, on two licenses.                  *)
(***************************************************************************)
AdminCtxs == {Ctx(FALSE, <<>>), Ctx(TRUE, <<>>), Ctx(TRUE, <<"">>), Ctx(TRUE, <<"s3cret">>),
              Ctx(TRUE, <<"S3CRET">>), Ctx(TRUE, <<"S3CRET", "s3cret">>)}
LicenseKeys == {"LIC-1", "LIC-2"}

InitAdmin == InitWith({"", "s3cret"}, PoolTokens)

NextAdmin ==
    \/ \E c \in Sequential, md \in AdminCtxs, lk \in LicenseKeys, pid \in ProductIds,
          active \in BOOLEAN, err \in BOOLEAN : UpdateLicense(c, md, lk, pid, active, err)
    \/ \E c \in Sequential, md \in AdminCtxs, lk \in LicenseKeys, err \in BOOLEAN :
          DeleteLicense(c, md, lk, err)
    \/ \E c \in Sequential, md \in PoolCtxs, lk \in LicenseKeys :
          ValidateLicense_Burn(c, md, lk, "PROD-A", "A", FALSE)
    \/ \E c \in Sequential : ValidateLicense_Lookup(c, FALSE)
    \/ \E c \in Sequential : ValidateLicense_Lock(c, FALSE)

SpecAdmin == InitAdmin /\ [][NextAdmin]_vars

(***************************************************************************)
(* The sweep among the requests: the process starts on a store that still  *)
(* holds a token row of an earlier run, issues and redeems tokens, and the *)
(* ticker fires when the clock has reached its period; the sweep's DELETE  *)
(* may fail.                                                               *)
(***************************************************************************)
Leftover == [token |-> 0, expires_at |-> ExpiresInSeconds]
SweepCtxs == {Ctx(TRUE, <<t>>) : t \in 0..MaxTokens}

InitSweep ==
    /\ now = 0
    /\ env = [ADMIN_SECRET |-> "s3cret"]
    /\ api_keys = {[key |-> "k-perm", expires_at |-> Null(0)]}
    /\ access_tokens = {Leftover}
    /\ licenses = {}
    /\ tokenSeq = 0
    /\ nextTick = SweepInterval
    /\ sweepErr = FALSE
    /\ calls = [c \in Callers |-> IdleCall]
    /\ issued = access_tokens
    /\ redeemed = {}

NextSweep ==
    \/ Tick
    \/ cleanupExpiredTokens
    \/ \E c \in Pair : GetAuthToken_Check(c, "k-perm", FALSE)
    \/ \E c \in Pair : GetAuthToken_Insert(c, FALSE)
    \/ \E c \in Pair, md \in SweepCtxs :
          ValidateLicense_Burn(c, md, "LIC-1", "PROD-A", "A", FALSE)
    \/ \E c \in Pair : ValidateLicense_Lookup(c, FALSE)

SpecSweep == InitSweep /\ [][NextSweep]_vars

(***************************************************************************)
(* The same, with the scheduling the sweep rests on: time passes, the      *)
(* ticker keeps firing, and of the DELETEs the sweep attempts while rows   *)
(* have expired the store accepts one in the end.                          *)
(***************************************************************************)
SpecSweepFair ==
    /\ SpecSweep
    /\ WF_vars(Tick)
    /\ WF_vars(cleanupExpiredTokens)
    /\ SF_vars(cleanupExpiredTokens_Tick(FALSE))

(***************************************************************************)
(* Refusals at the token stage: three callers present issued tokens and a  *)
(* token that was never issued, before and after the tokens' expiry and    *)
(* the sweep, while a license exists that a validation could lock.         *)
(***************************************************************************)
RefuseCtxs == {Ctx(TRUE, <<t>>) : t \in 1..(PoolTokens + 1)}

InitRefuse == InitWith({"s3cret"}, PoolTokens)

NextRefuse ==
    \/ Tick
    \/ cleanupExpiredTokens
    \/ \E c \in Callers, md \in RefuseCtxs :
          ValidateLicense_Burn(c, md, "LIC-1", "PROD-A", "A", FALSE)
    \/ \E c \in Callers : ValidateLicense_Lookup(c, FALSE)
    \/ \E c \in Callers : ValidateLicense_Lock(c, FALSE)
    \/ \E c \in Sequential : UpdateLicense(c, Admin, "LIC-1", "PROD-A", TRUE, FALSE)

SpecRefuse == InitRefuse /\ [][NextRefuse]_vars

(***************************************************************************)
(* Validation beside administration on two licenses: two callers validate  *)
(* either license with either hardware id while the licenses are upserted  *)
(* and deleted; the statements of the license stage may fail.              *)
(***************************************************************************)
Machines == {"A", "B"}

InitFrame == InitWith({"s3cret"}, PoolTokens)

NextFrame ==
    \/ \E c \in Pair, md \in PoolCtxs, lk \in LicenseKeys, hwid \in Machines :
          ValidateLicense_Burn(c, md, lk, "PROD-A", hwid, FALSE)
    \/ \E c \in Pair, err \in BOOLEAN : ValidateLicense_Lookup(c, err)
    \/ \E c \in Pair, err \in BOOLEAN : ValidateLicense_Lock(c, err)
    \/ \E c \in Pair, lk \in LicenseKeys, active \in BOOLEAN :
          UpdateLicense(c, Admin, lk, "PROD-A", active, FALSE)
    \/ \E c \in Pair, lk \in LicenseKeys : DeleteLicense(c, Admin, lk, FALSE)

SpecFrame == InitFrame /\ [][NextFrame]_vars

(***************************************************************************)
(* Binding a license that is never deleted: two callers validate the one   *)
(* license with either hardware id; the store answers every statement.     *)
(***************************************************************************)
InitBind == InitWith({"s3cret"}, PoolTokens)

NextBind ==
    \/ \E c \in Pair, md \in PoolCtxs, hwid \in Machines :
          ValidateLicense_Burn(c, md, "LIC-1", "PROD-A", hwid, FALSE)
    \/ \E c \in Pair : ValidateLicense_Lookup(c, FALSE)
    \/ \E c \in Pair : ValidateLicense_Lock(c, FALSE)
    \/ \E c \in Pair : UpdateLicense(c, Admin, "LIC-1", "PROD-A", TRUE, FALSE)

SpecBind == InitBind /\ [][NextBind]_vars

(***************************************************************************)
(* Vocabulary of the properties.                                           *)
(***************************************************************************)
\* the call record r is a ValidateLicense call that presented a token
HasTok(r) == r.op = "ValidateLicense" /\ r.md.ok /\ Len(r.md.values) > 0
Tok(r) == r.md.values[1]
\* the call passed the token stage
Passed(r) == HasTok(r) /\ r.rowsAffected > 0
\* the call was refused at the token stage
RefusedResp == Resp("Unauthenticated", FALSE, "invalid or expired access token")
Refused(r) == HasTok(r) /\ r.pc = "done" /\ r.res = RefusedResp
\* the token stage of the call ended in a store error
TokenStageError(r) == HasTok(r) /\ r.failed /\ r.rowsAffected = 0
\* this step is the token stage of a new ValidateLicense call of c
TokenStep(c) == Free(c) /\ calls'[c] # calls[c] /\ calls'[c].op = "ValidateLicense"
\* this step is the key check of a new GetAuthToken call of c
KeyStep(c) == Free(c) /\ calls'[c] # calls[c] /\ calls'[c].op = "GetAuthToken"
\* token t has been issued and its lifetime has not ended
Unexpired(t) == \E h \in issued : h.token = t /\ h.expires_at > now
RowOf(t) == {r \in access_tokens : r.token = t}

(***************************************************************************)
(* C1: of the N concurrent ValidateLicense calls that present the same     *)
(* unexpired token, exactly one passes the token stage and every other one *)
(* whose DELETE ran is refused with Unauthenticated: no two calls pass     *)
(* with one token, and the DELETE that meets the live row passes and       *)
(* removes it.                                                             *)
(***************************************************************************)
C1_AtMostOne ==
    \A c1, c2 \in Callers :
        (c1 # c2 /\ Passed(calls[c1]) /\ HasTok(calls[c2]) /\ Tok(calls[c2]) = Tok(calls[c1]))
        => /\ ~Passed(calls[c2])
           /\ (TokenStageError(calls[c2]) \/ Refused(calls[c2]))

C1_FirstWins ==
    \A c \in Callers :
        (TokenStep(c) /\ HasTok(calls'[c]) /\ ~calls'[c].failed
            /\ Burnable(Tok(calls'[c])) # {})
        => /\ calls'[c].pc = "lookup"
           /\ {r \in access_tokens' : r.token = Tok(calls'[c])} = {}

C1_ExactlyOneRedeemer == []C1_AtMostOne /\ [][C1_FirstWins]_vars

C1_Witness ==
    \E c1 \in Callers :
        /\ Passed(calls[c1]) /\ calls[c1].pc \in {"lookup", "lock"}
        /\ Unexpired(Tok(calls[c1]))
        /\ \A c2 \in Callers \ {c1} :
              Refused(calls[c2]) /\ Tok(calls[c2]) = Tok(calls[c1])

(***************************************************************************)
(* C2: a token is redeemed at most once in sequence: a redemption of an    *)
(* issued, unexpired, not yet redeemed token succeeds; a later one of the  *)
(* same token is refused with Unauthenticated; the row of a redeemed token *)
(* is absent from access_tokens ever after.                                *)
(***************************************************************************)
C2_RowStaysDeleted == \A t \in redeemed : RowOf(t) = {}

C2_FirstThenRefused ==
    \A c \in Callers :
        (TokenStep(c) /\ HasTok(calls'[c]) /\ ~calls'[c].failed)
        => LET t == Tok(calls'[c]) IN
           /\ (t \in redeemed => Refused(calls'[c]) /\ access_tokens' = access_tokens)
           /\ (t \notin redeemed /\ Unexpired(t) /\ RowOf(t) # {}
                  => Passed(calls'[c]) /\ t \in redeemed')

C2_RedeemOnce == []C2_RowStaysDeleted /\ [][C2_FirstThenRefused]_vars

C2_Witness ==
    \E c \in Callers :
        /\ Refused(calls[c])
        /\ Tok(calls[c]) \in redeemed
        /\ Unexpired(Tok(calls[c]))
        /\ \A d \in Callers : Free(d)

(***************************************************************************)
(* C3: ValidateLicense reaches the license stage only after its own DELETE *)
(* removed the token's row: a call without metadata, without the header,   *)
(* or with a token that has no live row ends at the token stage with       *)
(* Unauthenticated and leaves licenses alone.                              *)
(***************************************************************************)
AtLicenseStage(r) ==
    /\ r.op = "ValidateLicense"
    /\ \/ r.pc \in {"lookup", "lock"}
       \/ r.pc = "done" /\ r.res.code = "OK"

C3_OnlyAfterRedemption ==
    \A c \in Callers :
        AtLicenseStage(calls[c])
        => /\ HasTok(calls[c])
           /\ Tok(calls[c]) \in redeemed
           /\ RowOf(Tok(calls[c])) = {}

C3_BadTokenStops ==
    \A c \in Callers :
        (TokenStep(c) /\ ~calls'[c].failed
            /\ (~HasTok(calls'[c]) \/ Burnable(Tok(calls'[c])) = {}))
        => /\ calls'[c].pc = "done"
           /\ calls'[c].res.code = "Unauthenticated"
           /\ licenses' = licenses

C3_TokenGatesLicense == []C3_OnlyAfterRedemption /\ [][C3_BadTokenStops]_vars

C3_Witness ==
    \E c \in Callers :
        /\ Refused(calls[c])
        /\ Tok(calls[c]) \in redeemed
        /\ \E r \in licenses : r.license_key = calls[c].lk /\ r.product_id = calls[c].pid
                                  /\ r.is_active /\ ~r.hwid.Valid
        /\ calls[c].hwid # ""

(***************************************************************************)
(* C6: a token whose expires_at is not after NOW() is not redeemable even  *)
(* while its row is still in access_tokens: the call does not pass, is     *)
(* refused with Unauthenticated when the DELETE ran, and the row stays.    *)
(***************************************************************************)
C6_ExpiredRefused ==
    \A c \in Callers :
        (TokenStep(c) /\ HasTok(calls'[c])
            /\ \E r \in RowOf(Tok(calls'[c])) : r.expires_at <= now)
        => /\ ~Passed(calls'[c])
           /\ calls'[c].pc = "done"
           /\ (~calls'[c].failed => Refused(calls'[c]))
           /\ access_tokens' = access_tokens

C6_ExpiredNotRedeemable == [][C6_ExpiredRefused]_vars

C6_Witness ==
    \E c \in Callers :
        /\ Refused(calls[c])
        /\ \E r \in RowOf(Tok(calls[c])) : r.expires_at = now

(***************************************************************************)
(* C9: GetAuthToken inserts a row only for a non-empty key that matched an *)
(* api_keys row with expires_at NULL or in the future when it was checked: *)
(* the empty key ends InvalidArgument, an unknown or expired key ends      *)
(* Unauthenticated, neither inserts; a row is inserted only by the INSERT  *)
(* of a call whose key passed that check.                                  *)
(***************************************************************************)
ValidKey(key) ==
    /\ key # ""
    /\ \E k \in api_keys : k.key = key /\ (k.expires_at.Valid => k.expires_at.V > now)

C9_KeyChecked ==
    \A c \in Callers :
        KeyStep(c)
        => LET r == calls'[c] IN
           /\ access_tokens' = access_tokens
           /\ (r.api_key = "" => r.pc = "done" /\ r.res.code = "InvalidArgument")
           /\ (r.api_key # "" /\ ~ValidKey(r.api_key) /\ ~r.failed
                  => r.pc = "done" /\ r.res.code = "Unauthenticated")
           /\ (r.pc = "insert" => ValidKey(r.api_key))

C9_InsertedByIssuer ==
    (access_tokens' # access_tokens /\ ~(access_tokens' \subseteq access_tokens))
    => \E c \in Callers :
          /\ calls[c].op = "GetAuthToken" /\ calls[c].pc = "insert"
          /\ calls'[c].pc = "done" /\ calls'[c].res.code = "OK"

C9_InsertOnlyAfterCheck ==
    \A c \in Callers :
        calls[c].pc = "insert"
        => /\ calls[c].op = "GetAuthToken"
           /\ calls[c].api_key # ""
           /\ \E k \in api_keys : k.key = calls[c].api_key

C9_TokensOnlyForValidKeys ==
    /\ []C9_InsertOnlyAfterCheck
    /\ [][C9_KeyChecked /\ C9_InsertedByIssuer]_vars

C9_Witness ==
    \E c \in Callers :
        /\ calls[c].op = "GetAuthToken" /\ calls[c].pc = "done"
        /\ calls[c].api_key = "k-temp"
        /\ calls[c].res = Resp("Unauthenticated", FALSE, "Invalid or Expired API Key")
        /\ access_tokens = issued /\ issued # {}

(***************************************************************************)
(* Vocabulary of the license-stage properties.                             *)
(***************************************************************************)
LookupStep(c) == calls[c].pc = "lookup" /\ calls'[c].pc # "lookup"
LockStep(c) == calls[c].pc = "lock" /\ calls'[c].pc # "lock"
ValidateStep(c) == TokenStep(c) \/ LookupStep(c) \/ LockStep(c)
Matching(r) == {row \in licenses : row.license_key = r.lk /\ row.product_id = r.pid}
Bound(row) == row.hwid.Valid /\ row.hwid.V # ""
Authenticated == Resp("OK", TRUE, "Authenticated")
Mismatch == Resp("OK", FALSE, "HWID mismatch")

(***************************************************************************)
(* C4: once a row of licenses holds a non-empty hwid, no step of a         *)
(* ValidateLicense call changes that hwid, whatever the interleaving of    *)
(* the concurrent calls.                                                   *)
(***************************************************************************)
C4_LockKept ==
    (\E c \in Callers : ValidateStep(c))
    => \A row \in licenses :
          Bound(row) => \E row2 \in licenses' :
                           row2.license_key = row.license_key /\ row2.hwid = row.hwid

C4_HwidNeverOverwritten == [][C4_LockKept]_vars

(***************************************************************************)
(* C7: a ValidateLicense call one of whose store statements failed ends    *)
(* with an Internal error, never with a valid=true or valid=false answer.  *)
(***************************************************************************)
C7_StoreErrorIsInternal ==
    \A c \in Callers :
        (calls[c].op = "ValidateLicense" /\ calls[c].pc = "done" /\ calls[c].failed)
        => calls[c].res.code = "Internal"

(***************************************************************************)
(* C10: when the SELECT of a call that passed the token stage answers,     *)
(* the call's result is a response without error fixed by the row read     *)
(* for (license_key, product_id) and the request's hwid: no row gives      *)
(* "License not found"; an inactive row gives valid=false; an active row   *)
(* gives valid=true without a hwid in the request, and with one gives      *)
(* valid=true for an empty or equal stored hwid and "HWID mismatch" for a  *)
(* different one.                                                          *)
(***************************************************************************)
C10_Decided ==
    \A c \in Callers :
        /\ (LookupStep(c) /\ ~calls'[c].failed)
           => LET q == calls[c]
                  r == calls'[c]
              IN /\ Passed(q)
                 /\ (Matching(q) = {} => r.pc = "done" /\ r.res = Resp("OK", FALSE, "License not found"))
                 /\ \A row \in Matching(q) :
                       /\ (~row.is_active => r.pc = "done" /\ r.res.code = "OK" /\ ~r.res.valid)
                       /\ (row.is_active /\ q.hwid = "" => r.pc = "done" /\ r.res = Authenticated)
                       /\ (row.is_active /\ q.hwid # "" /\ ~Bound(row) => r.pc = "lock")
                       /\ (row.is_active /\ q.hwid # "" /\ Bound(row) /\ row.hwid.V = q.hwid
                              => r.pc = "done" /\ r.res = Authenticated)
                       /\ (row.is_active /\ q.hwid # "" /\ Bound(row) /\ row.hwid.V # q.hwid
                              => r.pc = "done" /\ r.res = Mismatch)
        /\ (LockStep(c) => calls'[c].pc = "done" /\ calls'[c].res = Authenticated)

C10_ResultFromRow == [][C10_Decided]_vars

C10_Witness ==
    \E c \in Callers :
        /\ calls[c].op = "ValidateLicense" /\ calls[c].pc = "done"
        /\ calls[c].hwid = "" /\ calls[c].res = Authenticated
        /\ \E row \in Matching(calls[c]) : row.is_active /\ Bound(row)

(***************************************************************************)
(* C5: with calls that follow one another on an active license: a call     *)
(* with a hwid on an empty stored hwid stores that hwid and answers        *)
(* valid=true; a call with the stored hwid answers valid=true; a call with *)
(* another hwid answers valid=false "HWID mismatch" and licenses is left   *)
(* as it was.                                                              *)
(***************************************************************************)
C5_Steps ==
    \A c \in Callers :
        /\ (LookupStep(c) /\ ~calls'[c].failed)
           => \A row \in Matching(calls[c]) :
                 (row.is_active /\ calls[c].hwid # "")
                 => /\ (~Bound(row) => calls'[c].pc = "lock")
                    /\ (Bound(row) /\ row.hwid.V = calls[c].hwid
                           => calls'[c].pc = "done" /\ calls'[c].res = Authenticated
                              /\ licenses' = licenses)
                    /\ (Bound(row) /\ row.hwid.V # calls[c].hwid
                           => calls'[c].pc = "done" /\ calls'[c].res = Mismatch
                              /\ licenses' = licenses)
        /\ LockStep(c)
           => /\ calls'[c].res = Authenticated
              /\ (~calls'[c].failed
                    => \E row \in Matching(calls[c]) :
                          /\ row.is_active /\ ~Bound(row)
                          /\ licenses' = (licenses \ {row})
                                \cup {[row EXCEPT !.hwid = Some(calls[c].hwid)]})

C5_LockThenMatch == [][C5_Steps]_vars

C5_Witness ==
    \E c \in Callers :
        /\ calls[c].op = "ValidateLicense" /\ calls[c].pc = "done"
        /\ calls[c].hwid = "B" /\ calls[c].res = Mismatch
        /\ \E row \in Matching(calls[c]) : row.is_active /\ row.hwid = Some("A")
        /\ Cardinality(redeemed) >= 2

(***************************************************************************)
(* C8: UpdateLicense and DeleteLicense without metadata end                *)
(* Unauthenticated, and with metadata but without x-admin-secret or with a *)
(* first value other than the configured secret end PermissionDenied, and  *)
(* leave api_keys, access_tokens and licenses as they were; an admin call  *)
(* changes licenses only when that first value equals the secret.          *)
(***************************************************************************)
AdminOps == {"UpdateLicense", "DeleteLicense"}
AdminStep(c) == Free(c) /\ calls'[c] # calls[c] /\ calls'[c].op \in AdminOps
SecretGiven(md) == md.ok /\ Len(md.values) > 0 /\ md.values[1] = env.ADMIN_SECRET
StoreUnchanged == UNCHANGED <<api_keys, access_tokens, licenses>>

C8_Gate ==
    /\ \A c \in Callers :
          AdminStep(c)
          => LET r == calls'[c] IN
             /\ (~r.md.ok
                   => r.res = Resp("Unauthenticated", FALSE, "metadata missing") /\ StoreUnchanged)
             /\ (r.md.ok /\ ~SecretGiven(r.md)
                   => r.res = Resp("PermissionDenied", FALSE, "invalid admin secret")
                      /\ StoreUnchanged)
             /\ (SecretGiven(r.md) => r.res.code \in {"OK", "Internal"})
    /\ (licenses' # licenses /\ ~(\E c \in Callers : LockStep(c)))
       => \E c \in Callers :
             /\ Free(c) /\ calls'[c].op \in AdminOps
             /\ SecretGiven(calls'[c].md) /\ calls'[c].res.code = "OK"

C8_AdminGate == [][C8_Gate]_vars

C8_Witness ==
    \E c \in Callers :
        /\ calls[c].op = "DeleteLicense" /\ calls[c].pc = "done"
        /\ calls[c].md = Ctx(TRUE, <<"S3CRET", "s3cret">>)
        /\ env.ADMIN_SECRET = "s3cret"
        /\ calls[c].res.code = "PermissionDenied"
        /\ \E row \in licenses : row.license_key = calls[c].lk /\ Bound(row)
(***************************************************************************)
(* C11: one-time use does not rest on the sweep.  A tick of the sweep      *)
(* removes only rows whose expires_at is before NOW(), so the rows a       *)
(* redemption would accept are the same before and after it and nothing    *)
(* else changes; an issued, unexpired, unredeemed token always has its     *)
(* row; hence whether a redemption passes is fixed by the tokens issued,   *)
(* the tokens redeemed and the clock, as in the run without the tick.      *)
(***************************************************************************)
C11_LiveRowsKept ==
    \A h \in issued : (h.expires_at > now /\ h.token \notin redeemed) => h \in access_tokens

C11_TickKeepsLive ==
    cleanupExpiredTokens
    => /\ access_tokens' \subseteq access_tokens
       /\ \A r \in access_tokens \ access_tokens' : r.expires_at < now
       /\ \A h \in issued :
             {r \in access_tokens' : r.token = h.token /\ r.expires_at > now'}
                = Burnable(h.token)
       /\ UNCHANGED <<api_keys, licenses, calls, issued, redeemed>>

C11_OutcomeFromHistory ==
    \A c \in Callers :
        (TokenStep(c) /\ HasTok(calls'[c]) /\ ~calls'[c].failed)
        => LET t == Tok(calls'[c]) IN
           /\ Passed(calls'[c]) <=> (Unexpired(t) /\ t \notin redeemed)
           /\ ~Passed(calls'[c]) => Refused(calls'[c])

C11_SweepNeverRaces ==
    []C11_LiveRowsKept /\ [][C11_TickKeepsLive /\ C11_OutcomeFromHistory]_vars

C11_Witness ==
    /\ Leftover \notin access_tokens /\ Leftover.token \notin redeemed
    /\ ~sweepErr
    /\ \E c \in Callers : Passed(calls[c]) /\ Unexpired(Tok(calls[c]))

(***************************************************************************)
(* C12: the sweep runs as long as the process: after a tick whose DELETE   *)
(* failed the loop is ready for a further tick again and again, and under  *)
(* the stated scheduling every row of access_tokens that has expired is    *)
(* eventually gone from the relation.                                      *)
(***************************************************************************)
C12_LoopGoesOn == []<>(now >= nextTick)

C12_ExpiredReaped ==
    \A t \in 0..(MaxTokens + PoolTokens) :
        (\E r \in RowOf(t) : r.expires_at < now) ~> (RowOf(t) = {})

C12_SweepEventuallyReaps == C12_LoopGoesOn /\ C12_ExpiredReaped

C12_Witness ==
    /\ sweepErr
    /\ now >= nextTick
    /\ Leftover \in Expired
(***************************************************************************)
(* C13: the answer to a token that is not redeemable does not tell why.    *)
(* Whether the token was never issued, has been redeemed or has expired    *)
(* (swept or not), the call ends with the one error Unauthenticated        *)
(* "invalid or expired access token" and leaves api_keys, access_tokens    *)
(* and licenses as they were; any two calls refused at the token stage     *)
(* carry the same answer.                                                  *)
(***************************************************************************)
NeverIssued(t) == \A h \in issued : h.token # t
ExpiredToken(t) == \E h \in issued : h.token = t /\ h.expires_at <= now
RefusedAtTokenStage(r) == HasTok(r) /\ r.pc = "done" /\ ~r.failed /\ r.rowsAffected = 0

C13_OneRefusal ==
    \A c \in Callers :
        (TokenStep(c) /\ HasTok(calls'[c]) /\ ~calls'[c].failed)
        => LET t == Tok(calls'[c]) IN
           (NeverIssued(t) \/ t \in redeemed \/ ExpiredToken(t))
           => /\ calls'[c].pc = "done"
              /\ calls'[c].rowsAffected = 0
              /\ calls'[c].res = RefusedResp
              /\ StoreUnchanged

C13_SameAnswer ==
    \A c1, c2 \in Callers :
        (RefusedAtTokenStage(calls[c1]) /\ RefusedAtTokenStage(calls[c2]))
        => calls[c1].res = calls[c2].res

C13_CauseNotRevealed == []C13_SameAnswer /\ [][C13_OneRefusal]_vars

C13_Witness ==
    /\ \E row \in licenses : row.is_active
    /\ \E c1, c2, c3 \in Callers :
          /\ Refused(calls[c1]) /\ NeverIssued(Tok(calls[c1]))
          /\ Refused(calls[c2]) /\ Tok(calls[c2]) \in redeemed
          /\ Refused(calls[c3]) /\ ExpiredToken(Tok(calls[c3]))
          /\ Tok(calls[c3]) \notin redeemed
          /\ RowOf(Tok(calls[c3])) # {}
(***************************************************************************)
(* C14: UpdateLicense with the admin secret is an insert-or-update keyed   *)
(* by license_key: without a row for the key it adds the row with the      *)
(* call's product_id and is_active and no hwid; with one it replaces that  *)
(* row's product_id and is_active by the call's values and keeps its hwid  *)
(* and every other row; a call that repeats the row's values changes       *)
(* nothing; of two upserts of one key the later one decides the row.       *)
(***************************************************************************)
KeyOf(rel, lk) == {r \in rel : r.license_key = lk}

C14_Keyed == \A r1, r2 \in licenses : r1.license_key = r2.license_key => r1 = r2

C14_LatestWins ==
    \A lk \in LicenseKeys, p1, p2 \in ProductIds, a1, a2 \in BOOLEAN :
        LET once == Upsert(licenses, lk, p2, a2)
            twice == Upsert(Upsert(licenses, lk, p1, a1), lk, p2, a2)
        IN /\ twice = once
           /\ \A r \in KeyOf(twice, lk) : r.product_id = p2 /\ r.is_active = a2

C14_Step ==
    \A c \in Callers :
        (AdminStep(c) /\ calls'[c].op = "UpdateLicense" /\ SecretGiven(calls'[c].md)
            /\ ~calls'[c].failed)
        => \A pid \in ProductIds, active \in BOOLEAN :
              UpdateLicense(c, calls'[c].md, calls'[c].lk, pid, active, FALSE)
              => LET lk == calls'[c].lk IN
                 /\ calls'[c].res = Resp("OK", FALSE, "")
                 /\ KeyOf(licenses, lk) = {}
                       => licenses' = licenses
                             \cup {[license_key |-> lk, product_id |-> pid,
                                     is_active |-> active, hwid |-> Null("")]}
                 /\ \A r \in KeyOf(licenses, lk) :
                       /\ licenses' = (licenses \ {r})
                              \cup {[license_key |-> lk, product_id |-> pid,
                                      is_active |-> active, hwid |-> r.hwid]}
                       /\ (r.product_id = pid /\ r.is_active = active)
                             => licenses' = licenses
                 /\ UNCHANGED <<api_keys, access_tokens>>

C14_UpsertByKey == []C14_Keyed /\ []C14_LatestWins /\ [][C14_Step]_vars

C14_Witness ==
    \E c \in Callers :
        /\ calls[c].op = "UpdateLicense" /\ calls[c].res = Resp("OK", FALSE, "")
        /\ \E r \in KeyOf(licenses, calls[c].lk) :
              r.hwid = Some("A") /\ r.product_id = "PROD-B" /\ ~r.is_active
        /\ \E r \in licenses : r.license_key # calls[c].lk

(***************************************************************************)
(* C15: DeleteLicense with the admin secret answers OK whether or not a    *)
(* row has the key: without one it leaves licenses as it was, with one it  *)
(* removes that row and no other; api_keys and access_tokens are left      *)
(* alone.                                                                  *)
(***************************************************************************)
C15_Step ==
    \A c \in Callers :
        (AdminStep(c) /\ calls'[c].op = "DeleteLicense" /\ SecretGiven(calls'[c].md)
            /\ ~calls'[c].failed)
        => LET lk == calls'[c].lk IN
           /\ calls'[c].res = Resp("OK", FALSE, "")
           /\ licenses' = licenses \ KeyOf(licenses, lk)
           /\ KeyOf(licenses, lk) = {} => licenses' = licenses
           /\ Cardinality(licenses \ licenses') <= 1
           /\ UNCHANGED <<api_keys, access_tokens>>

C15_DeleteByKey == [][C15_Step]_vars

C15_Witness ==
    \E c \in Callers :
        /\ calls[c].op = "DeleteLicense" /\ calls[c].res = Resp("OK", FALSE, "")
        /\ KeyOf(licenses, calls[c].lk) = {}
        /\ \E r \in licenses : Bound(r)

(***************************************************************************)
(* C19: checkAdmin compares the first x-admin-secret value with the        *)
(* ADMIN_SECRET of the environment and nothing else: when ADMIN_SECRET is  *)
(* empty, an admin call whose first x-admin-secret value is empty is       *)
(* authorized, UpdateLicense then writing its row and DeleteLicense        *)
(* removing its row, while a call without the header is refused with       *)
(* PermissionDenied and changes nothing.                                   *)
(***************************************************************************)
C19_Step ==
    \A c \in Callers :
        (AdminStep(c) /\ env.ADMIN_SECRET = "")
        => LET r == calls'[c] IN
           /\ (r.md.ok /\ Len(r.md.values) > 0 /\ r.md.values[1] = "" /\ ~r.failed)
              => /\ r.res = Resp("OK", FALSE, "")
                 /\ r.op = "UpdateLicense"
                       => /\ KeyOf(licenses', r.lk) # {}
                          /\ (KeyOf(licenses, r.lk) = {} => licenses' # licenses)
                 /\ r.op = "DeleteLicense"
                       => /\ KeyOf(licenses', r.lk) = {}
                          /\ (KeyOf(licenses, r.lk) # {} => licenses' # licenses)
           /\ (r.md.ok /\ Len(r.md.values) = 0)
              => /\ r.res = Resp("PermissionDenied", FALSE, "invalid admin secret")
                 /\ StoreUnchanged

C19_EmptySecretAuthorizes == [][C19_Step]_vars

C19_Witness ==
    \E c \in Callers :
        /\ env.ADMIN_SECRET = ""
        /\ calls[c].op = "UpdateLicense" /\ calls[c].md = Ctx(TRUE, <<"">>)
        /\ calls[c].res = Resp("OK", FALSE, "")
        /\ KeyOf(licenses, calls[c].lk) # {}

(***************************************************************************)
(* C16: a step of ValidateLicense, whatever the call's outcome, leaves     *)
(* api_keys alone and changes licenses at most in the hwid of the row      *)
(* keyed by the request's license_key, which it sets to the request's      *)
(* hwid: it adds no row and removes none, and changes no product_id and    *)
(* no is_active.                                                           *)
(***************************************************************************)
NoHwid(rel) ==
    {[license_key |-> r.license_key, product_id |-> r.product_id,
      is_active |-> r.is_active] : r \in rel}

C16_Step ==
    \A c \in Callers :
        ValidateStep(c)
        => /\ api_keys' = api_keys
           /\ NoHwid(licenses') = NoHwid(licenses)
           /\ Cardinality(licenses') = Cardinality(licenses)
           /\ \A r \in licenses : r.license_key # calls'[c].lk => r \in licenses'
           /\ \A r \in licenses' \ licenses :
                 /\ r.license_key = calls'[c].lk
                 /\ calls'[c].hwid # ""
                 /\ r.hwid = Some(calls'[c].hwid)

C16_OnlyHwidWritten == [][C16_Step]_vars

C16_Witness ==
    \E c \in Callers :
        /\ calls[c].op = "ValidateLicense" /\ calls[c].pc = "done" /\ ~calls[c].failed
        /\ calls[c].res = Authenticated /\ calls[c].hwid = "A"
        /\ \E r \in KeyOf(licenses, calls[c].lk) : r.hwid = Some("A")
        /\ \E r \in licenses : r.license_key # calls[c].lk /\ r.hwid = Some("B")

(***************************************************************************)
(* C17: a license binds to one machine: while the row of a license is not  *)
(* deleted, the ValidateLicense calls on it that answered valid=true with  *)
(* a hwid in the request all carried the same hwid.                        *)
(***************************************************************************)
Granted(r) ==
    /\ r.op = "ValidateLicense" /\ r.pc = "done"
    /\ r.res.code = "OK" /\ r.res.valid /\ r.hwid # ""

C17_OneMachine ==
    \A c1, c2 \in Callers :
        (Granted(calls[c1]) /\ Granted(calls[c2]) /\ calls[c1].lk = calls[c2].lk)
        => calls[c1].hwid = calls[c2].hwid

(***************************************************************************)
(* C18: the token stage consumes the token whatever follows: a call that   *)
(* passed it has left no row of its token, whether it is still running or  *)
(* has answered valid=true, valid=false or Internal; no step puts the row  *)
(* of a redeemed token back, and a later call with that token is refused.  *)
(***************************************************************************)
C18_Consumed ==
    \A c \in Callers :
        Passed(calls[c]) => RowOf(Tok(calls[c])) = {} /\ Tok(calls[c]) \in redeemed

C18_NoRestore ==
    /\ \A t \in redeemed : t \in redeemed' /\ {r \in access_tokens' : r.token = t} = {}
    /\ \A c \in Callers :
          (TokenStep(c) /\ HasTok(calls'[c]) /\ ~calls'[c].failed
              /\ Tok(calls'[c]) \in redeemed)
          => Refused(calls'[c])

C18_TokenConsumedRegardless == []C18_Consumed /\ [][C18_NoRestore]_vars

C18_Witness ==
    \E c1, c2 \in Callers :
        /\ Passed(calls[c1]) /\ calls[c1].pc = "done"
        /\ calls[c1].failed /\ calls[c1].res.code = "Internal"
        /\ Refused(calls[c2]) /\ Tok(calls[c2]) = Tok(calls[c1])

(***************************************************************************)
(* C20 as stated: when the SELECT finds the row inactive the call answers  *)
(* without error valid=false with the message "License is                  *)
(* suspended/inactive", before any look at the hwid: licenses is left as   *)
(* it was and the call never reaches the hwid update.                      *)
(***************************************************************************)
FoundInactive(c) ==
    /\ LookupStep(c) /\ ~calls'[c].failed
    /\ \E row \in Matching(calls[c]) : ~row.is_active

C20_AsStated ==
    \A c \in Callers :
        FoundInactive(c)
        => /\ calls'[c].pc = "done"
           /\ calls'[c].res = Resp("OK", FALSE, "License is suspended/inactive")
           /\ licenses' = licenses

C20_Suspended ==
    \A c \in Callers :
        FoundInactive(c)
        => /\ calls'[c].pc = "done"
           /\ calls'[c].res = Resp("OK", FALSE, "License is suspended")
           /\ licenses' = licenses

C20_LockOnlyIfActive == \A c \in Callers : calls[c].pc = "lock" => calls[c].active

====
